---- MODULE Spec2Model ----
(***************************************************************************)
(* Livraria Aoros (src/Livraria/app.py): a single-user bookstore catalog   *)
(* over one SQLite file, with a timestamped backup before every mutation,  *)
(* pruning of old backups, and CSV export/import.                          *)
(*                                                                         *)
(* The state is the live database file, the backup directory, the export  *)
(* file and the wall clock.  One action per menu() choice that touches the *)
(* store; each action is the whole handler: the prompts' validation loops, *)
(* the catalog function it calls, the backup that function takes and the   *)
(* pruning the backup ends with.                                           *)
(*                                                                         *)
(* Text is a tuple of one-character strings, an optional value is <<>>     *)
(* (Python's None) or <<v>>, a float is a record (see ParseFloat).         *)
(***************************************************************************)
EXTENDS Integers, Sequences, FiniteSets

VARIABLES
    db,       \* DB_FILE: [rows, seq, mtime]
    dir,      \* BACKUP_DIR: archive name -> copy of DB_FILE
    csv,      \* CSV_EXPORT_FILE: <<>> while absent, else <<file>>
    now,      \* datetime.now(), in clock ticks
    last      \* the menu choice that ran last, its inputs and what it returned

vars == <<db, dir, csv, now, last>>

----------------------------------------------------------------------------
(* Bounds of the exploration. *)

TicksPerSecond == 2   \* resolution of the clock

MaxId == 2            \* ids handed out by AUTOINCREMENT
MaxWrites == 2        \* commits to DB_FILE
MaxTime == 2          \* ticks on the clock

LongMaxId == 1        \* the same three for the long sessions of SpecLong
LongMaxWrites == 3
LongMaxTime == 10

MutMaxWrites == 6     \* commits and ticks of SpecMutations
MutMaxTime == 10

(* Program constants. *)

MAX_BACKUPS_TO_KEEP == 5

CurrentYear == 2026

----------------------------------------------------------------------------
(* Text helpers: str.strip(), int(), float(), str(). *)

Space == " "

Digits == <<"0", "1", "2", "3", "4", "5", "6", "7", "8", "9">>

IsDigit(c) == \E i \in 1..10 : Digits[i] = c

DigitVal(c) == (CHOOSE i \in 1..10 : Digits[i] = c) - 1

RECURSIVE LStrip(_)
LStrip(s) ==
    IF s # <<>> /\ Head(s) = Space THEN LStrip(Tail(s)) ELSE s

RECURSIVE RStrip(_)
RStrip(s) ==
    IF s # <<>> /\ s[Len(s)] = Space THEN RStrip(SubSeq(s, 1, Len(s) - 1)) ELSE s

Strip(s) == RStrip(LStrip(s))

AllDigits(s) == s # <<>> /\ \A i \in 1..Len(s) : IsDigit(s[i])

RECURSIVE DigitsValue(_)
DigitsValue(s) ==
    IF s = <<>> THEN 0
    ELSE 10 * DigitsValue(SubSeq(s, 1, Len(s) - 1)) + DigitVal(s[Len(s)])

RECURSIVE NatStr(_)
NatStr(n) ==
    IF n < 10 THEN <<Digits[n + 1]>> ELSE NatStr(n \div 10) \o <<Digits[(n % 10) + 1]>>

(* str(int) *)
IntStr(n) == IF n < 0 THEN <<"-">> \o NatStr(-n) ELSE NatStr(n)

(* int(text): surrounding whitespace and one sign are accepted, then digits. *)
(* <<>> when int() raises ValueError, else <<n>>.                             *)
ParseInt(text) ==
    LET s == Strip(text)
        neg == s # <<>> /\ Head(s) = "-"
        body == IF s # <<>> /\ Head(s) \in {"-", "+"} THEN Tail(s) ELSE s
    IN  IF AllDigits(body)
        THEN <<IF neg THEN -DigitsValue(body) ELSE DigitsValue(body)>>
        ELSE <<>>

(* A float is [k, v]: k = "fin" with v the value in tenths, k = "inf" with   *)
(* v the sign, or k = "nan".  The inputs of the model have at most one       *)
(* fractional digit, so tenths are exact.                                    *)
Fin(v) == [k |-> "fin", v |-> v]

Inf(sign) == [k |-> "inf", v |-> sign]

NaN == [k |-> "nan", v |-> 0]

Dot(s) == {i \in 1..Len(s) : s[i] = "."}

(* float(text): <<>> when float() raises ValueError, else <<f>>. *)
ParseFloat(text) ==
    LET s == Strip(text)
        neg == s # <<>> /\ Head(s) = "-"
        body == IF s # <<>> /\ Head(s) \in {"-", "+"} THEN Tail(s) ELSE s
        sign == IF neg THEN -1 ELSE 1
    IN  IF body = <<"i", "n", "f">> THEN <<Inf(sign)>>
        ELSE IF body = <<"n", "a", "n">> THEN <<NaN>>
        ELSE IF AllDigits(body) THEN <<Fin(sign * 10 * DigitsValue(body))>>
        ELSE IF Cardinality(Dot(body)) = 1
        THEN LET d == CHOOSE i \in Dot(body) : TRUE
                 ip == SubSeq(body, 1, d - 1)
                 fp == SubSeq(body, d + 1, Len(body))
             IN  IF /\ ip \o fp # <<>>
                    /\ ip = <<>> \/ AllDigits(ip)
                    /\ fp = <<>> \/ (AllDigits(fp) /\ Len(fp) = 1)
                 THEN <<Fin(sign * (10 * DigitsValue(ip) + DigitsValue(fp)))>>
                 ELSE <<>>
        ELSE <<>>

(* str(float) *)
FloatStr(f) ==
    IF f.k = "inf" THEN (IF f.v < 0 THEN <<"-">> ELSE <<>>) \o <<"i", "n", "f">>
    ELSE IF f.k = "nan" THEN <<"n", "a", "n">>
    ELSE LET a == IF f.v < 0 THEN -f.v ELSE f.v
         IN  (IF f.v < 0 THEN <<"-">> ELSE <<>>)
             \o NatStr(a \div 10) \o <<".">> \o NatStr(a % 10)

(* preco >= 0 on floats: false for nan. *)
FloatGE0(f) == (f.k = "fin" /\ f.v >= 0) \/ (f.k = "inf" /\ f.v > 0)

----------------------------------------------------------------------------
(* Validation helpers. *)

(* validar_ano without the lower limit of the range. *)
validar_ano_no_floor(ano_str) ==
    LET p == ParseInt(ano_str)
    IN  IF p # <<>> /\ p[1] <= CurrentYear + 1 THEN p ELSE <<>>

validar_ano(ano_str) ==
    LET p == ParseInt(ano_str)
    IN  IF p # <<>> /\ 1000 <= p[1] /\ p[1] <= CurrentYear + 1 THEN p ELSE <<>>

validar_preco(preco_str) ==
    LET p == ParseFloat(preco_str)
    IN  IF p # <<>> /\ FloatGE0(p[1]) THEN p ELSE <<>>

----------------------------------------------------------------------------
(* The store: table livros of DB_FILE.  seq is the AUTOINCREMENT counter    *)
(* (sqlite_sequence), kept in the file and never lowered by a DELETE; mtime *)
(* is the file's modification time, one stamp per commit that writes.        *)

Livro(id, titulo, autor, ano, preco) ==
    [id |-> id, titulo |-> titulo, autor |-> autor, ano |-> ano, preco |-> preco]

Ids(rows) == {r.id : r \in rows}

(* init_db on a fresh directory: the empty table. *)
init_db == [rows |-> {}, seq |-> 0, mtime |-> 0]

(* INSERT INTO livros (...) VALUES (?, ?, ?, ?), uncommitted. *)
SqlInsert(file, titulo, autor, ano, preco) ==
    [file EXCEPT !.rows = @ \cup {Livro(file.seq + 1, titulo, autor, ano, preco)},
                 !.seq = @ + 1]

(* UPDATE livros SET preco = ? WHERE id = ? *)
SqlUpdatePreco(file, livro_id, novo_preco) ==
    [file EXCEPT !.rows = {IF r.id = livro_id THEN [r EXCEPT !.preco = novo_preco] ELSE r
                           : r \in @}]

(* DELETE FROM livros WHERE id = ? *)
SqlDelete(file, livro_id) ==
    [file EXCEPT !.rows = {r \in @ : r.id # livro_id}]

(* DELETE FROM livros *)
SqlDeleteAll(file) == [file EXCEPT !.rows = {}]

(* conn.commit() of the transaction that turns file into changed: the pages *)
(* that differ are written and the mtime moves on; a statement that leaves  *)
(* every page as it was (an UPDATE to the value already stored) writes      *)
(* nothing.                                                                 *)
Commit(file, changed) ==
    IF changed = file THEN file ELSE [changed EXCEPT !.mtime = @ + 1]

(* SELECT ... ORDER BY id *)
RECURSIVE OrderById(_)
OrderById(rows) ==
    IF rows = {} THEN <<>>
    ELSE LET m == CHOOSE r \in rows : \A q \in rows : r.id <= q.id
         IN  <<m>> \o OrderById(rows \ {m})

listar_livros(file) == OrderById(file.rows)

----------------------------------------------------------------------------
(* Backup manager.  An archive is named by the second it is taken in and is *)
(* a copy2 of DB_FILE: content and mtime.                                   *)

(* strftime("%Y-%m-%d_%H-%M-%S"): the clock reading cut to whole seconds. *)
BackupName(t) == t \div TicksPerSecond

(* prune_old_backups sorting oldest first (reverse=False): the newest go. *)
prune_old_backups_oldest_first(d) ==
    LET names == DOMAIN d
        keepN == IF Cardinality(names) < MAX_BACKUPS_TO_KEEP
                 THEN Cardinality(names) ELSE MAX_BACKUPS_TO_KEEP
    IN  { [n \in K |-> d[n]] :
            K \in { S \in SUBSET names :
                      /\ Cardinality(S) = keepN
                      /\ \A k \in S, o \in names \ S : d[k].mtime <= d[o].mtime } }

(* sorted(glob, key=mtime, reverse=True)[MAX_BACKUPS_TO_KEEP:] is unlinked. *)
(* The sort is stable over glob's order, which the file system chooses, so  *)
(* among archives of equal mtime any may end up beyond the limit: every     *)
(* directory that keeps the first MAX_BACKUPS_TO_KEEP of some such order.   *)
prune_old_backups(d) ==
    LET names == DOMAIN d
        keepN == IF Cardinality(names) < MAX_BACKUPS_TO_KEEP
                 THEN Cardinality(names) ELSE MAX_BACKUPS_TO_KEEP
    IN  { [n \in K |-> d[n]] :
            K \in { S \in SUBSET names :
                      /\ Cardinality(S) = keepN
                      /\ \A k \in S, o \in names \ S : d[k].mtime >= d[o].mtime } }

(* shutil.copy2(DB_FILE, backup_path): an archive of that name is replaced. *)
CopyToBackup(file, d, t) ==
    [n \in DOMAIN d \cup {BackupName(t)} |-> IF n = BackupName(t) THEN file ELSE d[n]]

(* backup_db: the directories it may leave. *)
backup_db(file, d, t) == prune_old_backups(CopyToBackup(file, d, t))

----------------------------------------------------------------------------
(* Catalog operations.  Each is the set of outcomes of one call:            *)
(* [db, dir, ok, val, nbk], nbk counting the backup_db calls it made.       *)

Outcome(file, d, ok, val, nbk) ==
    [db |-> file, dir |-> d, ok |-> ok, val |-> val, nbk |-> nbk]

(* adicionar_livro binding autor and titulo in each other's place. *)
adicionar_livro_swapped(file, d, t, titulo, autor, ano_publicacao, preco) ==
    { Outcome(Commit(file, SqlInsert(file, Strip(autor), Strip(titulo), ano_publicacao, preco)),
              nd, TRUE, file.seq + 1, 1)
      : nd \in backup_db(file, d, t) }

adicionar_livro(file, d, t, titulo, autor, ano_publicacao, preco) ==
    { Outcome(Commit(file, SqlInsert(file, Strip(titulo), Strip(autor), ano_publicacao, preco)),
              nd, TRUE, file.seq + 1, 1)
      : nd \in backup_db(file, d, t) }

(* atualizar_preco_livro taking its backup before it looks the id up. *)
atualizar_preco_livro_backup_first(file, d, t, livro_id, novo_preco) ==
    IF livro_id \notin Ids(file.rows)
    THEN { Outcome(file, nd, FALSE, 0, 1) : nd \in backup_db(file, d, t) }
    ELSE { Outcome(Commit(file, SqlUpdatePreco(file, livro_id, novo_preco)), nd, TRUE, 0, 1)
           : nd \in backup_db(file, d, t) }

atualizar_preco_livro(file, d, t, livro_id, novo_preco) ==
    IF livro_id \notin Ids(file.rows)
    THEN { Outcome(file, d, FALSE, 0, 0) }
    ELSE { Outcome(Commit(file, SqlUpdatePreco(file, livro_id, novo_preco)), nd, TRUE, 0, 1)
           : nd \in backup_db(file, d, t) }

remover_livro(file, d, t, livro_id) ==
    IF livro_id \notin Ids(file.rows)
    THEN { Outcome(file, d, FALSE, 0, 0) }
    ELSE { Outcome(Commit(file, SqlDelete(file, livro_id)), nd, TRUE, 0, 1)
           : nd \in backup_db(file, d, t) }

(* remover_todos_livros without the count: it backs up and deletes anyway. *)
remover_todos_livros_unchecked(file, d, t) ==
    { Outcome(Commit(file, SqlDeleteAll(file)), nd, TRUE, 0, 1)
      : nd \in backup_db(file, d, t) }

remover_todos_livros(file, d, t) ==
    IF Cardinality(file.rows) = 0
    THEN { Outcome(file, d, FALSE, 0, 0) }
    ELSE { Outcome(Commit(file, SqlDeleteAll(file)), nd, TRUE, 0, 1)
           : nd \in backup_db(file, d, t) }

----------------------------------------------------------------------------
(* CSV.  A file is [header, rows]: the header's column names and, per line, *)
(* the fields csv.reader yields for it (csv.writer's quoting and the        *)
(* reader's unquoting are the library's and inverse to each other on        *)
(* fields).  <<>> as a line is a blank line.                                *)

CsvFile(header, rows) == [header |-> header, rows |-> rows]

ExportHeader == <<"titulo", "autor", "ano_publicacao", "preco">>

(* ExportRow writing "preco or ''": a price of 0.0 is left blank. *)
ExportRow_falsy(livro) ==
    << livro.titulo, livro.autor,
       IF livro.ano # <<>> THEN IntStr(livro.ano[1]) ELSE <<>>,
       IF livro.preco # <<>> /\ livro.preco[1] # Fin(0)
       THEN FloatStr(livro.preco[1]) ELSE <<>> >>

ExportRow(livro) ==
    << livro.titulo, livro.autor,
       IF livro.ano # <<>> THEN IntStr(livro.ano[1]) ELSE <<>>,
       IF livro.preco # <<>> THEN FloatStr(livro.preco[1]) ELSE <<>> >>

exportar_para_csv(file) ==
    LET livros == listar_livros(file)
    IN  CsvFile(ExportHeader, [i \in 1..Len(livros) |-> ExportRow(livros[i])])

(* csv.DictReader: blank lines are skipped. *)
DictRows(f) == SelectSeq(f.rows, LAMBDA line : line # <<>>)

(* r.get(key): None (<<>>) for a column the header lacks or the line is too *)
(* short for; of two columns of one name the later wins.                    *)
Get(header, line, key) ==
    LET at == {i \in 1..Len(header) : header[i] = key}
    IN  IF at = {} THEN <<>>
        ELSE LET i == CHOOSE j \in at : \A k \in at : k <= j
             IN  IF i <= Len(line) THEN <<line[i]>> ELSE <<>>

(* a or b or "" on optional text *)
OrText(a, b) ==
    IF a # <<>> /\ a[1] # <<>> THEN a[1]
    ELSE IF b # <<>> /\ b[1] # <<>> THEN b[1]
    ELSE <<>>

(* The body of the for loop of importar_de_csv: one line, one INSERT. *)
ImportRow(file, header, line) ==
    LET titulo == OrText(Get(header, line, "titulo"), Get(header, line, "title"))
        autor == OrText(Get(header, line, "autor"), Get(header, line, "author"))
        ano_raw == OrText(Get(header, line, "ano_publicacao"), Get(header, line, "year"))
        preco_raw == OrText(Get(header, line, "preco"), Get(header, line, "price"))
        ano == IF ano_raw # <<>> THEN validar_ano(ano_raw) ELSE <<>>
        preco == IF preco_raw # <<>> THEN validar_preco(preco_raw) ELSE <<>>
    IN  SqlInsert(file, Strip(titulo), Strip(autor), ano, preco)

RECURSIVE ImportRows(_, _, _)
ImportRows(file, header, lines) ==
    IF lines = <<>> THEN file
    ELSE ImportRows(ImportRow(file, header, Head(lines)), header, Tail(lines))

(* importar_de_csv taking its backup before it looks at the rows. *)
importar_de_csv_backup_first(file, d, t, f) ==
    LET rows == DictRows(f)
    IN  IF rows = <<>>
        THEN { Outcome(file, nd, TRUE, 0, 1) : nd \in backup_db(file, d, t) }
        ELSE { Outcome(Commit(file, ImportRows(file, f.header, rows)), nd, TRUE, Len(rows), 1)
               : nd \in backup_db(file, d, t) }

(* importar_de_csv on a file that exists. *)
importar_de_csv(file, d, t, f) ==
    LET rows == DictRows(f)
    IN  IF rows = <<>>
        THEN { Outcome(file, d, TRUE, 0, 0) }
        ELSE { Outcome(Commit(file, ImportRows(file, f.header, rows)), nd, TRUE, Len(rows), 1)
               : nd \in backup_db(file, d, t) }

----------------------------------------------------------------------------
(* What the user types and the files the user has. *)

TituloInputs == { <<>>, <<" ", "a", " ">> }

AutorInputs == { <<" ">>, <<"b", " ">> }

AnoInputs == { <<>>, <<"2", "0", "2", "7">>, <<"9", "9", "9">>, <<"2", "0", "2", "8">>, <<"x">> }

PrecoInputs == { <<>>, <<" ", "2", "5", ".", "5">>, <<"-", "1">> }

NovoPrecoInputs == { <<>>, <<"i", "n", "f">>, <<"n", "a", "n">>, <<"-", "0", ".", "5">> }

IdInputs == 1..(MaxId + 1)

UserFiles ==
    [ vazio |-> CsvFile(ExportHeader, << <<>> >>),
      ingles |-> CsvFile(<<"title", "author", "year", "price", "isbn">>,
                         << << <<" ", "c">>, <<"d", " ">>, <<"1", "0", "0", "0">>, <<"0">>, <<"7">> >>,
                            <<>>,
                            << <<>>, <<"d">>, <<"5", "0">>, <<"-", "1">> >> >>),
      curto |-> CsvFile(ExportHeader, << << <<"e">> >> >>) ]

Paths == DOMAIN UserFiles \cup {"exports", "ausente"}

(* Path(csv_path).exists() and the file's content. *)
PathExists(path) == path \in DOMAIN UserFiles \/ (path = "exports" /\ csv # <<>>)

FileAt(path) == IF path = "exports" THEN csv[1] ELSE UserFiles[path]

----------------------------------------------------------------------------
(* The menu.  last records the catalog function the last choice called, its *)
(* inputs and its result: ok is the result's truth value (FALSE also when   *)
(* it raised), val its number (the new id, the count of inserted rows), nbk *)
(* the backup_db calls it made.  A choice that ends before calling anything *)
(* (a refused title, a cancelled removal) leaves everything as it is.       *)

NoText == <<>>

Did(op, ok, val, nbk, id, text, path) ==
    [op |-> op, ok |-> ok, val |-> val, nbk |-> nbk, id |-> id, text |-> text, path |-> path]

Init ==
    /\ db = init_db
    /\ dir = << >>
    /\ csv = <<>>
    /\ now = 0
    /\ last = Did("init", TRUE, 0, 0, 0, NoText, "")

(* The prompts of choice 1 for the year and the price: what is typed is    *)
(* stripped; empty text is None, other text is validated.  A prompt repeats *)
(* until its value is None by empty text or valid, so the texts it can end  *)
(* on are those.                                                            *)
AnoPrompt(anoIn) ==
    IF Strip(anoIn) = <<>> THEN <<>> ELSE validar_ano(Strip(anoIn))

PrecoPrompt(precoIn) ==
    IF Strip(precoIn) = <<>> THEN <<>> ELSE validar_preco(Strip(precoIn))

AnoAnswers(Ys) == {y \in Ys : Strip(y) = <<>> \/ AnoPrompt(y) # <<>>}

PrecoAnswers(Ps) == {p \in Ps : Strip(p) = <<>> \/ PrecoPrompt(p) # <<>>}

(* The price prompt of choice 3 repeats until the text is valid. *)
NovoPrecoAnswers(Ps) == {p \in Ps : validar_preco(Strip(p)) # <<>>}

(* Choice 1.  An empty title or author ends the choice before any call. *)
Adicionar(Ts, As, Ys, Ps, maxId, maxWrites) ==
    \E tituloIn \in Ts, autorIn \in As, anoIn \in AnoAnswers(Ys), precoIn \in PrecoAnswers(Ps) :
        LET titulo == Strip(tituloIn)
            autor == Strip(autorIn)
            ano == AnoPrompt(anoIn)
            preco == PrecoPrompt(precoIn)
        IN  /\ IF titulo = <<>> \/ autor = <<>>
               THEN UNCHANGED <<db, dir, last>>
               ELSE /\ db.seq < maxId
                    /\ db.mtime < maxWrites
                    /\ \E r \in adicionar_livro(db, dir, now, titulo, autor, ano, preco) :
                          /\ db' = r.db
                          /\ dir' = r.dir
                          /\ last' = Did("adicionar", r.ok, r.val, r.nbk, 0,
                                         <<tituloIn, autorIn, anoIn, precoIn>>, "")
            /\ UNCHANGED <<csv, now>>

(* Choice 3. *)
Atualizar(Is, Ps, maxWrites) ==
    \E livro_id \in Is, precoIn \in NovoPrecoAnswers(Ps) :
        LET novo_preco == validar_preco(Strip(precoIn))
        IN  /\ livro_id \in Ids(db.rows) => db.mtime < maxWrites
            /\ \E r \in atualizar_preco_livro(db, dir, now, livro_id, novo_preco) :
                  /\ db' = r.db
                  /\ dir' = r.dir
                  /\ last' = Did("atualizar", r.ok, r.val, r.nbk, livro_id,
                                 IF r.ok THEN <<precoIn>> ELSE NoText, "")
            /\ UNCHANGED <<csv, now>>

(* Choice 4.  Anything but "s" at the confirmation cancels. *)
Remover(Is, maxWrites) ==
    \E livro_id \in Is, confirm \in BOOLEAN :
        /\ IF ~confirm
           THEN UNCHANGED <<db, dir, last>>
           ELSE /\ livro_id \in Ids(db.rows) => db.mtime < maxWrites
                /\ \E r \in remover_livro(db, dir, now, livro_id) :
                      /\ db' = r.db
                      /\ dir' = r.dir
                      /\ last' = Did("remover", r.ok, r.val, r.nbk, livro_id, NoText, "")
        /\ UNCHANGED <<csv, now>>

(* Choice 10. *)
RemoverTodos(maxWrites) ==
    \E confirm \in BOOLEAN :
        /\ IF ~confirm
           THEN UNCHANGED <<db, dir, last>>
           ELSE /\ db.rows # {} => db.mtime < maxWrites
                /\ \E r \in remover_todos_livros(db, dir, now) :
                      /\ db' = r.db
                      /\ dir' = r.dir
                      /\ last' = Did("remover_todos", r.ok, r.val, r.nbk, 0, NoText, "")
        /\ UNCHANGED <<csv, now>>

(* Choice 6. *)
Exportar ==
    /\ csv' = <<exportar_para_csv(db)>>
    /\ last' = Did("exportar", TRUE, 0, 0, 0, NoText, "")
    /\ UNCHANGED <<db, dir, now>>

(* Choice 7.  FileNotFoundError is caught and printed. *)
Importar(Fs, maxId, maxWrites) ==
    \E path \in Fs :
        /\ IF ~PathExists(path)
           THEN /\ last' = Did("importar", FALSE, 0, 0, 0, NoText, "")
                /\ UNCHANGED <<db, dir>>
           ELSE /\ DictRows(FileAt(path)) # <<>> =>
                      /\ db.mtime < maxWrites
                      /\ db.seq + Len(DictRows(FileAt(path))) <= maxId
                /\ \E r \in importar_de_csv(db, dir, now, FileAt(path)) :
                      /\ db' = r.db
                      /\ dir' = r.dir
                      /\ last' = Did("importar", r.ok, r.val, r.nbk, 0, NoText, path)
        /\ UNCHANGED <<csv, now>>

(* Choice 8. *)
Backup ==
    /\ \E nd \in backup_db(db, dir, now) : dir' = nd
    /\ last' = Did("backup", TRUE, 0, 1, 0, NoText, "")
    /\ UNCHANGED <<db, csv, now>>

(* Time passes between two choices. *)
Tick(maxTime) ==
    /\ now < maxTime
    /\ now' = now + 1
    /\ UNCHANGED <<db, dir, csv, last>>

----------------------------------------------------------------------------
(* Spec: short sessions over every input. *)

MenuAdicionar == Adicionar(TituloInputs, AutorInputs, AnoInputs, PrecoInputs, MaxId, MaxWrites)

MenuAtualizar == Atualizar(IdInputs, NovoPrecoInputs, MaxWrites)

MenuRemover == Remover(IdInputs, MaxWrites)

MenuRemoverTodos == RemoverTodos(MaxWrites)

MenuExportar == Exportar

MenuImportar == Importar(Paths, MaxId, MaxWrites)

MenuBackup == Backup

Clock == Tick(MaxTime)

Next ==
    \/ MenuAdicionar
    \/ MenuAtualizar
    \/ MenuRemover
    \/ MenuRemoverTodos
    \/ MenuExportar
    \/ MenuImportar
    \/ MenuBackup
    \/ Clock

Spec == Init /\ [][Next]_vars

----------------------------------------------------------------------------
(* SpecLong: long sessions over few inputs, which fill the backup directory *)
(* beyond MAX_BACKUPS_TO_KEEP.                                              *)

LongTitulo == { <<"a", " ">> }

LongAutor == { <<" ", "b">> }

LongAno == { <<>> }

LongPreco == { <<"2", "5", ".", "5">> }

LongNovoPreco == { <<"i", "n", "f">> }

LongIds == 1..LongMaxId

LongPaths == {"curto"}

LongAdicionar == Adicionar(LongTitulo, LongAutor, LongAno, LongPreco, LongMaxId, LongMaxWrites)

LongAtualizar == Atualizar(LongIds, LongNovoPreco, LongMaxWrites)

LongRemover == Remover(LongIds, LongMaxWrites)

LongRemoverTodos == RemoverTodos(LongMaxWrites)

LongImportar == Importar(LongPaths, LongMaxId, LongMaxWrites)

LongBackup == Backup

LongClock == Tick(LongMaxTime)

NextLong ==
    \/ LongAdicionar
    \/ LongAtualizar
    \/ LongRemover
    \/ LongRemoverTodos
    \/ LongImportar
    \/ LongBackup
    \/ LongClock

SpecLong == Init /\ [][NextLong]_vars

----------------------------------------------------------------------------
(* SpecMutations: sessions of mutating choices only, as many as it takes to *)
(* pass MAX_BACKUPS_TO_KEEP, at any pace.                                   *)

MutNovoPreco == { <<"2", "5", ".", "5">>, <<"i", "n", "f">> }

MutAdicionar == Adicionar(LongTitulo, LongAutor, LongAno, LongPreco, LongMaxId, MutMaxWrites)

MutAtualizar == Atualizar(LongIds, MutNovoPreco, MutMaxWrites)

MutRemover == Remover(LongIds, MutMaxWrites)

MutRemoverTodos == RemoverTodos(MutMaxWrites)

MutImportar == Importar(LongPaths, LongMaxId, MutMaxWrites)

MutClock == Tick(MutMaxTime)

NextMutations ==
    \/ MutAdicionar
    \/ MutAtualizar
    \/ MutRemover
    \/ MutRemoverTodos
    \/ MutImportar
    \/ MutClock

SpecMutations == Init /\ [][NextMutations]_vars

----------------------------------------------------------------------------
(* Properties. *)

(* A step in which a choice called its catalog function: anything but the  *)
(* clock moved.  last' then describes that call and the unprimed variables *)
(* the state it was made in.                                               *)
CallStep == <<db, dir, csv, last>>' # <<db, dir, csv, last>>

Called(op) == CallStep /\ last'.op = op

(* The most recently named archive of a directory that has one. *)
Newest(d) == d[CHOOSE n \in DOMAIN d : \A m \in DOMAIN d : m <= n]

(* The (title, author, year, price) tuples of a set of rows. *)
Tuples(rows) == {<<r.titulo, r.autor, r.ano, r.preco>> : r \in rows}

(* The lines of a file that are data rows. *)
DataRows(f) == Cardinality({i \in 1..Len(f.rows) : f.rows[i] # <<>>})

(* C1: whenever a choice changes the catalog file, it took one backup, and  *)
(* the newest archive left in the backup directory holds the catalog as it  *)
(* was before the call.                                                     *)
C1_BackupHoldsPriorCatalog ==
    [][ db' # db =>
          /\ last'.op \in {"adicionar", "atualizar", "remover", "remover_todos", "importar"}
          /\ last'.nbk = 1
          /\ DOMAIN dir' # {}
          /\ Newest(dir').rows = db.rows ]_vars

(* C1 happens: a price update changed the catalog with the directory full,  *)
(* and the pruning removed the very archive the call had just written.      *)
C1_Witness ==
    /\ last.op = "atualizar"
    /\ last.ok
    /\ Cardinality(DOMAIN dir) = MAX_BACKUPS_TO_KEEP
    /\ BackupName(now) \notin DOMAIN dir
    /\ Newest(dir).rows # db.rows

(* C2: atualizar_preco_livro and remover_livro on an id the catalog lacks   *)
(* return False, call backup_db zero times and leave the catalog file and   *)
(* the backup directory as they were.                                       *)
C2_NotFoundNoBackup ==
    [][ ((Called("atualizar") \/ Called("remover")) /\ last'.id \notin Ids(db.rows)) =>
          /\ ~last'.ok
          /\ last'.nbk = 0
          /\ db' = db
          /\ dir' = dir ]_vars

(* C2 happens: a price update for an id that a non-empty catalog, with an   *)
(* archive on disk, does not hold.                                          *)
C2_Witness ==
    /\ last.op = "atualizar"
    /\ ~last.ok
    /\ last.id \notin Ids(db.rows)
    /\ db.rows # {}
    /\ DOMAIN dir # {}

(* C3: remover_todos_livros on an empty catalog returns False and takes no  *)
(* backup; on a non-empty one it returns True, empties the catalog and      *)
(* takes exactly one backup: the archive of this second, the only archive   *)
(* written, and the newest archive left holds the catalog as it was.        *)
C3_RemoverTodos ==
    [][ Called("remover_todos") =>
          IF db.rows = {}
          THEN /\ ~last'.ok
               /\ last'.nbk = 0
               /\ db' = db
               /\ dir' = dir
          ELSE /\ last'.ok
               /\ db'.rows = {}
               /\ last'.nbk = 1
               /\ DOMAIN dir' # {}
               /\ Newest(dir').rows = db.rows
               /\ \A n \in DOMAIN dir' \cap DOMAIN dir :
                      n # BackupName(now) => dir'[n] = dir[n]
               /\ DOMAIN dir' \subseteq DOMAIN dir \cup {BackupName(now)} ]_vars

(* C3 happens: a catalog of two records was deleted whole. *)
C3_Witness ==
    /\ last.op = "remover_todos"
    /\ last.ok
    /\ db.rows = {}
    /\ \E n \in DOMAIN dir : Cardinality(dir[n].rows) = 2

(* C4: once more than MAX_BACKUPS_TO_KEEP mutating operations have been     *)
(* committed (each commit that writes moves db.mtime on by one), exactly    *)
(* MAX_BACKUPS_TO_KEEP archives are in the backup directory; and they are   *)
(* the most recently created: an archive that a call's backup leaves out    *)
(* was created (is named for a second) before every archive it keeps.       *)
C4_KeepsFiveNewest ==
    /\ [](db.mtime > MAX_BACKUPS_TO_KEEP =>
              Cardinality(DOMAIN dir) = MAX_BACKUPS_TO_KEEP)
    /\ [][ (CallStep /\ last'.nbk = 1) =>
             \A n \in (DOMAIN dir \cup {BackupName(now)}) \ DOMAIN dir' :
                 \A k \in DOMAIN dir' : n < k ]_vars

(* C5: a backup_db call in a second in which an archive was already written *)
(* adds an archive of its own (the directory being below its limit) and     *)
(* leaves the earlier one as it was.                                        *)
C5_SameSecondNoCollision ==
    [][ ( /\ CallStep
          /\ last'.nbk = 1
          /\ BackupName(now) \in DOMAIN dir
          /\ Cardinality(DOMAIN dir) < MAX_BACKUPS_TO_KEEP ) =>
          /\ Cardinality(DOMAIN dir') = Cardinality(DOMAIN dir) + 1
          /\ dir'[BackupName(now)] = dir[BackupName(now)] ]_vars

(* C6: every record of the catalog has a non-empty title and a non-empty    *)
(* author.                                                                  *)
C6_TitleAuthorNonEmpty ==
    \A r \in db.rows : r.titulo # <<>> /\ r.autor # <<>>

(* C7: every record's year is absent or an integer of 1000..CurrentYear+1,  *)
(* and its price is absent or a number >= 0 (a float that is not nan and    *)
(* compares >= 0).                                                          *)
C7_YearPriceInRange ==
    \A r \in db.rows :
        /\ r.ano = <<>> \/ (r.ano[1] \in Int /\ 1000 <= r.ano[1] /\ r.ano[1] <= CurrentYear + 1)
        /\ r.preco = <<>> \/ (r.preco[1].k \in {"fin", "inf"} /\ r.preco[1].v >= 0)

(* C7 happens: in a catalog of two records, one that holds a year has had   *)
(* its price updated.                                                       *)
C7_Witness ==
    /\ last.op = "atualizar"
    /\ last.ok
    /\ \E r \in db.rows : r.id = last.id /\ r.ano # <<>> /\ r.preco # <<>>
    /\ Cardinality(db.rows) = 2

(* C8: after adicionar_livro, listar_livros is what it was before with one  *)
(* record appended: the returned id, the typed title and author stripped,   *)
(* the typed year and price.                                                *)
C8_InsertAppendsOne ==
    [][ Called("adicionar") =>
          listar_livros(db') =
              Append(listar_livros(db),
                     Livro(last'.val, Strip(last'.text[1]), Strip(last'.text[2]),
                           AnoPrompt(last'.text[3]), PrecoPrompt(last'.text[4]))) ]_vars

(* C8 happens: a second record was inserted from a title typed with spaces  *)
(* around it, with a year and a price.                                      *)
C8_Witness ==
    /\ last.op = "adicionar"
    /\ last.ok
    /\ last.text[1] # Strip(last.text[1])
    /\ Cardinality(db.rows) = 2
    /\ \E r \in db.rows : r.id = last.val /\ r.ano # <<>> /\ r.preco # <<>>

(* C9: importar_de_csv on a file without data rows returns 0, takes no      *)
(* backup and leaves the catalog file and the backup directory as they      *)
(* were; on a file with data rows it takes one backup, returns their number *)
(* and adds that many records, under new ids, to the ones there were.       *)
C9_ImportRows ==
    [][ (Called("importar") /\ last'.ok) =>
          LET n == DataRows(FileAt(last'.path))
          IN  IF n = 0
              THEN /\ last'.val = 0
                   /\ last'.nbk = 0
                   /\ db' = db
                   /\ dir' = dir
              ELSE /\ last'.val = n
                   /\ last'.nbk = 1
                   /\ db.rows \subseteq db'.rows
                   /\ Cardinality(db'.rows) = Cardinality(db.rows) + n
                   /\ \A r \in db'.rows \ db.rows : r.id \notin Ids(db.rows) ]_vars

(* C9 happens: two data rows, a blank line between them, were imported. *)
C9_Witness ==
    /\ last.op = "importar"
    /\ last.ok
    /\ last.val = 2
    /\ last.nbk = 1
    /\ Cardinality(db.rows) = 2

(* C10: exporting the catalog and importing the exported file into an       *)
(* empty catalog gives the catalog's own (title, author, year, price)       *)
(* tuples.                                                                  *)
C10_ExportImportRoundTrip ==
    \A r \in importar_de_csv(init_db, << >>, now, exportar_para_csv(db)) :
        Tuples(r.db.rows) = Tuples(db.rows)

(* C10 happens: the export file on disk is the export of the catalog, which *)
(* holds a record with year and price and a record without.                 *)
C10_Witness ==
    /\ csv = <<exportar_para_csv(db)>>
    /\ \E r \in db.rows : r.ano # <<>> /\ r.preco # <<>>
    /\ \E r \in db.rows : r.ano = <<>> /\ r.preco = <<>>

====
